---- MODULE Spec2Model ----
(***************************************************************************)
(* A model of src/EXAMPLE/__init__.py: the SERVICE_TAG service template of *)
(* a devine service plugin.  The class attributes (ALIASES, GEOFENCE and   *)
(* the click command `cli`) are the state after the module is imported;    *)
(* the host then invokes the cli command, which constructs instances, and  *)
(* calls the hooks of constructed instances one at a time.                 *)
(*                                                                         *)
(* The base class Service and click live outside the repository.  Of the   *)
(* base class the model assumes only that its initializer may call back    *)
(* get_session, that its initializer and its authenticate either return or *)
(* raise, and that it does not touch the attributes this class defines.    *)
(***************************************************************************)
EXTENDS Integers, Sequences, FiniteSets, TLC

----------------------------------------------------------------------------
(* Bounds of the model.                                                    *)

\* How many instances the host constructs in one run.
MaxInstances == 2

\* The longest command line (in tokens) handed to the cli command.
MaxArgv == 2

----------------------------------------------------------------------------
(* Python values.  Every value is a record with the same fields, so any    *)
(* two values can be compared: `type` is the Python type, `v` the payload  *)
(* and `ref` an object identity (0 when the value is not an instance).     *)

Val(type, v) == [type |-> type, v |-> v, ref |-> 0]

\* Python's None: what a function whose body is `...` returns.
None == Val("NoneType", "")

\* An attribute that has not been assigned yet (reading it would raise
\* AttributeError).
Unset == Val("unset", "")

\* A reference to the i-th SERVICE_TAG instance.
InstanceRef(i) == [type |-> "SERVICE_TAG", v |-> "", ref |-> i]

\* The tokens a command line is made of.
Tokens == {"tt01", "42"}

\* The tokens that read as a decimal integer.
Numeric == {"42"}

\* The click contexts the host passes.
Contexts == {"ctxA", "ctxB"}

\* Optional[MozillaCookieJar] and Optional[Credential].
CookieValues == {None, Val("MozillaCookieJar", "jar")}
CredentialValues == {None, Val("Credential", "user:pass")}

\* Union[Movies, Series], bytes challenges, tracks, and the example arguments.
TitleValues == {Val("Movies", "m"), Val("Series", "s")}
ChallengeValues == {Val("bytes", "c1")}
TrackValues == {Val("Video", "v")}
DeviceIds == {Val("str", "dev")}
Versions == {Val("int", "1")}

----------------------------------------------------------------------------
(* Strings whose characters matter are sequences of one-character strings. *)

UpperChars ==
    <<"A","B","C","D","E","F","G","H","I","J","K","L","M",
      "N","O","P","Q","R","S","T","U","V","W","X","Y","Z">>

LowerChars ==
    <<"a","b","c","d","e","f","g","h","i","j","k","l","m",
      "n","o","p","q","r","s","t","u","v","w","x","y","z">>

\* str.lower() on one character, then on a string.
LowerChar(c) ==
    IF \E k \in 1..Len(UpperChars) : UpperChars[k] = c
    THEN LowerChars[CHOOSE k \in 1..Len(UpperChars) : UpperChars[k] = c]
    ELSE c

Lower(s) == [k \in 1..Len(s) |-> LowerChar(s[k])]

----------------------------------------------------------------------------
(* The class statement: its name and its class attributes.                 *)

\* class SERVICE_TAG(Service):
ClassName == <<"S","E","R","V","I","C","E","_","T","A","G">>

\* ALIASES = ("fullname", "altname", "commonname", "and so on...")
ALIASES_withTag ==
    << <<"f","u","l","l","n","a","m","e">>,
       <<"S","E","R","V","I","C","E","_","T","A","G">>,
       <<"c","o","m","m","o","n","n","a","m","e">>,
       <<"a","n","d"," ","s","o"," ","o","n",".",".",".">> >>

ALIASES_value ==
    << <<"f","u","l","l","n","a","m","e">>,
       <<"a","l","t","n","a","m","e">>,
       <<"c","o","m","m","o","n","n","a","m","e">>,
       <<"a","n","d"," ","s","o"," ","o","n",".",".",".">> >>

\* GEOFENCE = ("us",)
GEOFENCE_value == << <<"u","s">> >>

\* @click.argument("title", type=str): one positional parameter.
ClickArgument(name, type) == [kind |-> "argument", name |-> name, type |-> type]

\* @click.command(name="SERVICE_TAG", ...) over @click.argument("title", type=str):
\* the command object bound to the class attribute `cli`.
cli_twoArguments ==
    [name   |-> <<"S","E","R","V","I","C","E","_","T","A","G">>,
     params |-> <<ClickArgument("title", "str"), ClickArgument("season", "str")>>]

cli_command ==
    [name   |-> <<"S","E","R","V","I","C","E","_","T","A","G">>,
     params |-> <<ClickArgument("title", "str")>>]

----------------------------------------------------------------------------
(* click: parsing a command line against the declared parameters.          *)

\* A parameter type's conversion of one token: str keeps the token as a str,
\* int accepts only decimal tokens.
Convert(type, tok) ==
    IF type = "str" THEN [ok |-> TRUE, value |-> Val("str", tok)]
    ELSE IF type = "int" /\ tok \in Numeric
         THEN [ok |-> TRUE, value |-> Val("int", tok)]
         ELSE [ok |-> FALSE, value |-> None]

\* No option is declared and no token of Tokens starts with a dash, so every
\* token is positional; each declared argument
\* takes exactly one token (nargs=1, required).  A missing or an extra token,
\* or a token its type rejects, is a usage error.
ParseOk(params, argv) ==
    /\ Len(argv) = Len(params)
    /\ \A k \in 1..Len(params) : Convert(params[k].type, argv[k]).ok

\* The keyword arguments click hands to the callback: parameter name -> value.
ParamNames(params) == {params[k].name : k \in 1..Len(params)}

ParseKwargs(params, argv) ==
    [n \in ParamNames(params) |->
        Convert(params[CHOOSE k \in 1..Len(params) : params[k].name = n].type,
                argv[CHOOSE k \in 1..Len(params) : params[k].name = n]).value]

\* SERVICE_TAG(ctx, **kwargs) binds to __init__(self, ctx, title): the keyword
\* arguments must be exactly {title}, else Python raises TypeError.
BindOk(kwargs) == DOMAIN kwargs = {"title"}

----------------------------------------------------------------------------
(* The bodies of the methods.                                              *)

\* __init__: the statements of the constructor, in order.
InitSteps_superFirst == <<"super_init", "store_title">>

InitSteps == <<"store_title", "super_init">>

\* self.title = title
StoreTitle_dropped(self, title) == self

StoreTitle(self, title) == [self EXCEPT !.title = title]

\* super().__init__(ctx): the argument handed to the base initializer.
SuperInitArgs(ctx) == ctx

\* authenticate: the statements of the method, in order.
AuthenticateSteps_serviceFirst == <<"service_step", "super_authenticate">>

AuthenticateSteps == <<"super_authenticate", "service_step">>

\* super().authenticate(cookies, credential)
SuperAuthenticateArgs(cookies, credential) == <<cookies, credential>>

\* The `...` after the super() call: evaluates Ellipsis, changes nothing.
authenticate_service_step(self) == self

\* A hook whose body is `...`: leaves the instance alone and returns None.
Stub(self) == [self |-> self, ret |-> None]

get_session(self) == Stub(self)

get_titles_clobbers(self) == [self |-> [self EXCEPT !.title = None], ret |-> None]

get_titles(self) == Stub(self)

get_tracks(self, title) == Stub(self)

get_chapters(self, title) == Stub(self)

get_widevine_service_certificate(self, challenge, title, track) == Stub(self)

get_widevine_license(self, challenge, title, track) == Stub(self)

get_api_config_data(self, device_id, version) == Stub(self)

----------------------------------------------------------------------------
(* The state.                                                              *)

VARIABLES
    ALIASES,    \* the class attribute ALIASES
    GEOFENCE,   \* the class attribute GEOFENCE
    cli,        \* the class attribute cli: the registered click command
    instances,  \* the SERVICE_TAG objects allocated so far, by identity
    pc,         \* where the host's single thread of control is
    frame,      \* the call in progress
    last        \* the last call that finished, with its outcome

vars == <<ALIASES, GEOFENCE, cli, instances, pc, frame, last>>

\* A call: the operation, the instance it is bound to (0: none), its
\* arguments, the next statement of its body, and what it has done so far.
Frame(op, self, ctx, argv, args) ==
    [op            |-> op,
     self          |-> self,
     ctx           |-> ctx,
     argv          |-> argv,
     args          |-> args,
     ip            |-> 1,
     before        |-> Len(instances),  \* instances allocated when it began
     superCalls    |-> <<>>,    \* the argument lists of its super().authenticate calls
     svcSteps      |-> 0,       \* service-specific steps it has run
     sessionCalled |-> FALSE]   \* whether the base initializer called get_session

NoFrame == [Frame("", 0, "", <<>>, <<>>) EXCEPT !.before = 0]

\* How a call ends: it returns a value or raises an exception.  While a call
\* is in progress there is no outcome to speak of.
Pending == [call |-> NoFrame, kind |-> "none", value |-> None, exc |-> ""]

Returned(call, value) == [call |-> call, kind |-> "return", value |-> value, exc |-> ""]

Raised(call, exc) == [call |-> call, kind |-> "raise", value |-> None, exc |-> exc]

\* A freshly allocated object, before __init__ has run: no attribute is set.
\* ctorCtx and ctorTitle remember the arguments __init__ was called with.
NewInstance(ctx, title) ==
    [title            |-> Unset,
     ctorCtx          |-> ctx,
     ctorTitle        |-> title,
     superInits       |-> <<>>,  \* the contexts the base initializer was invoked with
     titleAtSuper     |-> <<>>,  \* self.title at each of these invocations
     titleSeenByHooks |-> <<>>,  \* self.title as seen by each hook the base initializer called
     phase            |-> "constructing"]

Ready(i) == i \in 1..Len(instances) /\ instances[i].phase = "ready"

Init ==
    /\ ALIASES = ALIASES_value
    /\ GEOFENCE = GEOFENCE_value
    /\ cli = cli_command
    /\ instances = <<>>
    /\ pc = "idle"
    /\ frame = NoFrame
    /\ last = Pending

classAttrs == <<ALIASES, GEOFENCE, cli>>

----------------------------------------------------------------------------
(* The cli command and the constructor.                                    *)

\* The host runs the command on a command line.  click parses it and calls
\* cli(ctx, **kwargs), which evaluates SERVICE_TAG(ctx, **kwargs): the
\* object is allocated and __init__ starts.
InvokeCli(ctx, argv) ==
    /\ pc = "idle"
    /\ Len(instances) < MaxInstances
    /\ LET call == Frame("cli", 0, ctx, argv, <<>>) IN
       IF ~ParseOk(cli.params, argv)
       THEN /\ last' = Raised(call, "UsageError")
            /\ UNCHANGED <<instances, pc, frame>>
       ELSE LET kwargs == ParseKwargs(cli.params, argv) IN
            IF ~BindOk(kwargs)
            THEN /\ last' = Raised(call, "TypeError")
                 /\ UNCHANGED <<instances, pc, frame>>
            ELSE /\ instances' = Append(instances, NewInstance(ctx, kwargs.title))
                 /\ frame' = [call EXCEPT !.self = Len(instances) + 1,
                                          !.args = <<kwargs.title>>]
                 /\ pc' = "init"
                 /\ last' = Pending
    /\ UNCHANGED classAttrs

\* self.title = title
Init_StoreTitle ==
    /\ pc = "init"
    /\ frame.ip <= Len(InitSteps)
    /\ InitSteps[frame.ip] = "store_title"
    /\ instances' = [instances EXCEPT ![frame.self] = StoreTitle(@, frame.args[1])]
    /\ frame' = [frame EXCEPT !.ip = @ + 1]
    /\ UNCHANGED <<classAttrs, pc, last>>

\* super().__init__(ctx): control enters the base initializer.
Init_Super ==
    /\ pc = "init"
    /\ frame.ip <= Len(InitSteps)
    /\ InitSteps[frame.ip] = "super_init"
    /\ instances' = [instances EXCEPT
            ![frame.self].superInits = Append(@, SuperInitArgs(frame.ctx)),
            ![frame.self].titleAtSuper = Append(@, instances[frame.self].title)]
    /\ frame' = [frame EXCEPT !.ip = @ + 1]
    /\ pc' = "base_init"
    /\ UNCHANGED <<classAttrs, last>>

\* The base initializer calls back self.get_session() (at most once).
BaseInit_get_session ==
    /\ pc = "base_init"
    /\ ~frame.sessionCalled
    /\ LET r == get_session(instances[frame.self]) IN
       instances' = [instances EXCEPT
            ![frame.self] = [r.self EXCEPT !.titleSeenByHooks =
                                Append(@, instances[frame.self].title)]]
    /\ frame' = [frame EXCEPT !.sessionCalled = TRUE]
    /\ UNCHANGED <<classAttrs, pc, last>>

\* The base initializer returns to __init__.
BaseInit_Return ==
    /\ pc = "base_init"
    /\ pc' = "init"
    /\ UNCHANGED <<classAttrs, instances, frame, last>>

\* The base initializer raises: the error leaves __init__ and cli, and the
\* half-built object is never handed to the host.
BaseInit_Raise ==
    /\ pc = "base_init"
    /\ instances' = [instances EXCEPT ![frame.self].phase = "failed"]
    /\ last' = Raised(frame, "HostError")
    /\ frame' = NoFrame
    /\ pc' = "idle"
    /\ UNCHANGED classAttrs

\* __init__ has run its last statement; cli returns the instance.
Cli_Return ==
    /\ pc = "init"
    /\ frame.ip > Len(InitSteps)
    /\ instances' = [instances EXCEPT ![frame.self].phase = "ready"]
    /\ last' = Returned(frame, InstanceRef(frame.self))
    /\ frame' = NoFrame
    /\ pc' = "idle"
    /\ UNCHANGED classAttrs

----------------------------------------------------------------------------
(* authenticate.                                                           *)

\* The host calls authenticate(cookies, credential) on a constructed instance.
Invoke_authenticate(i, cookies, credential) ==
    /\ pc = "idle"
    /\ Ready(i)
    /\ frame' = Frame("authenticate", i, "", <<>>, <<cookies, credential>>)
    /\ pc' = "auth"
    /\ last' = Pending
    /\ UNCHANGED <<classAttrs, instances>>

\* super().authenticate(cookies, credential): control enters the base method.
Auth_Super ==
    /\ pc = "auth"
    /\ frame.ip <= Len(AuthenticateSteps)
    /\ AuthenticateSteps[frame.ip] = "super_authenticate"
    /\ frame' = [frame EXCEPT
            !.ip = @ + 1,
            !.superCalls = Append(@, SuperAuthenticateArgs(frame.args[1], frame.args[2]))]
    /\ pc' = "base_auth"
    /\ UNCHANGED <<classAttrs, instances, last>>

\* The base authenticate returns to the method.
BaseAuth_Return ==
    /\ pc = "base_auth"
    /\ pc' = "auth"
    /\ UNCHANGED <<classAttrs, instances, frame, last>>

\* The base authenticate raises: the method has no handler, the error
\* reaches the caller.
BaseAuth_Raise ==
    /\ pc = "base_auth"
    /\ last' = Raised(frame, "HostError")
    /\ frame' = NoFrame
    /\ pc' = "idle"
    /\ UNCHANGED <<classAttrs, instances>>

\* The service-specific part of authenticate: the `...` statement.
Auth_ServiceStep ==
    /\ pc = "auth"
    /\ frame.ip <= Len(AuthenticateSteps)
    /\ AuthenticateSteps[frame.ip] = "service_step"
    /\ instances' = [instances EXCEPT ![frame.self] = authenticate_service_step(@)]
    /\ frame' = [frame EXCEPT !.ip = @ + 1, !.svcSteps = @ + 1]
    /\ UNCHANGED <<classAttrs, pc, last>>

\* The method falls off its end and returns None.
Auth_Return ==
    /\ pc = "auth"
    /\ frame.ip > Len(AuthenticateSteps)
    /\ last' = Returned(frame, None)
    /\ frame' = NoFrame
    /\ pc' = "idle"
    /\ UNCHANGED <<classAttrs, instances>>

----------------------------------------------------------------------------
(* The other hooks: each is one call that runs the body and returns.       *)

\* A call of hook `op` on instance i with `args`, whose body yields r.
HookCall(op, i, args, r) ==
    /\ pc = "idle"
    /\ Ready(i)
    /\ instances' = [instances EXCEPT ![i] = r.self]
    /\ last' = Returned(Frame(op, i, "", <<>>, args), r.ret)
    /\ UNCHANGED <<classAttrs, pc, frame>>

Invoke_get_session(i) ==
    HookCall("get_session", i, <<>>, get_session(instances[i]))

Invoke_get_titles(i) ==
    HookCall("get_titles", i, <<>>, get_titles(instances[i]))

Invoke_get_tracks(i, title) ==
    HookCall("get_tracks", i, <<title>>, get_tracks(instances[i], title))

Invoke_get_chapters(i, title) ==
    HookCall("get_chapters", i, <<title>>, get_chapters(instances[i], title))

Invoke_get_widevine_service_certificate(i, challenge, title, track) ==
    HookCall("get_widevine_service_certificate", i, <<challenge, title, track>>,
             get_widevine_service_certificate(instances[i], challenge, title, track))

Invoke_get_widevine_license(i, challenge, title, track) ==
    HookCall("get_widevine_license", i, <<challenge, title, track>>,
             get_widevine_license(instances[i], challenge, title, track))

Invoke_get_api_config_data(i, device_id, version) ==
    HookCall("get_api_config_data", i, <<device_id, version>>,
             get_api_config_data(instances[i], device_id, version))

----------------------------------------------------------------------------
(* The specification.                                                      *)

\* The command lines of at most MaxArgv tokens.
Argvs == UNION {[1..n -> Tokens] : n \in 0..MaxArgv}

Next ==
    \/ \E ctx \in Contexts, argv \in Argvs : InvokeCli(ctx, argv)
    \/ Init_StoreTitle
    \/ Init_Super
    \/ BaseInit_get_session
    \/ BaseInit_Return
    \/ BaseInit_Raise
    \/ Cli_Return
    \/ \E i \in 1..MaxInstances, c \in CookieValues, k \in CredentialValues :
            Invoke_authenticate(i, c, k)
    \/ Auth_Super
    \/ BaseAuth_Return
    \/ BaseAuth_Raise
    \/ Auth_ServiceStep
    \/ Auth_Return
    \/ \E i \in 1..MaxInstances : Invoke_get_session(i)
    \/ \E i \in 1..MaxInstances : Invoke_get_titles(i)
    \/ \E i \in 1..MaxInstances, t \in TitleValues : Invoke_get_tracks(i, t)
    \/ \E i \in 1..MaxInstances, t \in TitleValues : Invoke_get_chapters(i, t)
    \/ \E i \in 1..MaxInstances, c \in ChallengeValues, t \in TitleValues, k \in TrackValues :
            Invoke_get_widevine_service_certificate(i, c, t, k)
    \/ \E i \in 1..MaxInstances, c \in ChallengeValues, t \in TitleValues, k \in TrackValues :
            Invoke_get_widevine_license(i, c, t, k)
    \/ \E i \in 1..MaxInstances, d \in DeviceIds, v \in Versions :
            Invoke_get_api_config_data(i, d, v)

Spec == Init /\ [][Next]_vars

----------------------------------------------------------------------------
(* Properties.                                                             *)

\* The calls of the cli command: in progress, or just finished.
CliRunning == pc \in {"init", "base_init"} /\ frame.op = "cli"

CliReturned == last.call.op = "cli" /\ last.kind = "return"

\* C1: for every title passed on the command line, the cli command
\* constructs exactly one SERVICE_TAG instance, with the click context it was
\* given and the parsed arguments, and the instance it returns has that title.
C1_CliConstructsOneInstanceWithTitle ==
    /\ CliRunning =>
        /\ Len(instances) = frame.before + 1
        /\ frame.self = Len(instances)
        /\ instances[frame.self].ctorCtx = frame.ctx
        /\ instances[frame.self].ctorTitle = Val("str", frame.argv[1])
    /\ CliReturned =>
        LET c == last.call IN
        /\ Len(instances) = c.before + 1
        /\ last.value = InstanceRef(Len(instances))
        /\ Len(c.argv) = 1
        /\ instances[last.value.ref].ctorCtx = c.ctx
        /\ instances[last.value.ref].ctorTitle = Val("str", c.argv[1])
        /\ instances[last.value.ref].title = Val("str", c.argv[1])

C1_Witness ==
    /\ CliReturned
    /\ last.call.argv = <<"tt01">>
    /\ instances[last.value.ref].title = Val("str", "tt01")
    /\ Len(instances) = 2

\* C2: in every construction the title is stored on the instance before the
\* base initializer is invoked, and the base initializer is invoked exactly
\* once, with the same click context; so all through the base initializer,
\* and in any hook it calls back (get_session), the title is already set.
C2_TitleStoredBeforeBaseInit ==
    /\ \A i \in 1..Len(instances) :
        LET o == instances[i] IN
        /\ Len(o.superInits) <= 1
        /\ \A k \in 1..Len(o.superInits) :
            /\ o.superInits[k] = o.ctorCtx
            /\ o.titleAtSuper[k] # Unset
            /\ o.titleAtSuper[k] = o.ctorTitle
        /\ \A k \in 1..Len(o.titleSeenByHooks) :
            /\ o.titleSeenByHooks[k] # Unset
            /\ o.titleSeenByHooks[k] = o.ctorTitle
        /\ o.phase \in {"ready", "failed"} => Len(o.superInits) = 1
    /\ pc = "base_init" =>
        /\ instances[frame.self].title # Unset
        /\ instances[frame.self].title = instances[frame.self].ctorTitle

C2_Witness ==
    /\ pc = "base_init"
    /\ frame.sessionCalled
    /\ instances[frame.self].titleSeenByHooks = <<Val("str", "42")>>
    /\ instances[frame.self].superInits = <<"ctxB">>

\* The calls of authenticate that have finished, and the one in progress.
AuthFinished == last.call.op = "authenticate" /\ last.kind # "none"

AuthRunning == pc \in {"auth", "base_auth"} /\ frame.op = "authenticate"

\* C3: authenticate checks that the cookies and/or credential are present;
\* called with both absent (cookies is None and credential is None) it does
\* not return normally: it ends by raising (the environment error, or an
\* error of the base method on its way out).
C3_AuthenticateRaisesWhenAbsent ==
    (AuthFinished /\ last.call.args = <<None, None>>) =>
        /\ last.kind = "raise"
        /\ last.exc \in {"EnvironmentError", "HostError"}

\* C4: get_chapters returns a list (possibly empty), never None.
C4_GetChaptersReturnsList ==
    (last.call.op = "get_chapters" /\ last.kind = "return") =>
        last.value.type = "list"

\* C5: the registered command is named after the class, SERVICE_TAG, and
\* declares exactly one parameter: a positional argument `title` of type
\* str.  So a command line parses if and only if it has exactly one token,
\* and the callback's keyword arguments always fit the constructor.
C5_CommandNameAndSingleTitleArgument ==
    /\ cli.name = ClassName
    /\ Len(cli.params) = 1
    /\ cli.params[1] = [kind |-> "argument", name |-> "title", type |-> "str"]
    /\ (last.call.op = "cli" /\ last.kind # "none") =>
        /\ last.exc = "UsageError" <=> Len(last.call.argv) # 1
        /\ last.exc # "TypeError"

C5_Witness ==
    /\ last.call.op = "cli"
    /\ last.exc = "UsageError"
    /\ last.call.argv = <<"tt01", "42">>

\* What C6 asks of one call of authenticate, given what it has done so far.
BaseCalledFirst(call) ==
    /\ Len(call.superCalls) <= 1
    /\ \A k \in 1..Len(call.superCalls) :
            call.superCalls[k] = <<call.args[1], call.args[2]>>
    /\ call.svcSteps > 0 => Len(call.superCalls) = 1

\* C6: every call of authenticate(cookies, credential) invokes the base
\* authenticate exactly once, with the cookies and the credential it was
\* given, before any service-specific step; if the base call raises, the
\* error reaches the caller and no service-specific step has run.
C6_AuthenticateCallsBaseOnceFirst ==
    /\ AuthRunning => BaseCalledFirst(frame)
    /\ AuthFinished =>
        /\ BaseCalledFirst(last.call)
        /\ Len(last.call.superCalls) = 1
        /\ last.kind = "raise" =>
            /\ last.exc = "HostError"
            /\ last.call.svcSteps = 0

C6_Witness ==
    /\ AuthFinished
    /\ last.kind = "raise"
    /\ last.call.superCalls = << <<Val("MozillaCookieJar", "jar"), None>> >>

\* C7: get_widevine_service_certificate returns bytes or a str, never None
\* (only get_widevine_license may return None).
C7_ServiceCertificateIsBytesOrStr ==
    (last.call.op = "get_widevine_service_certificate" /\ last.kind = "return") =>
        last.value.type \in {"bytes", "str"}

\* C8: every entry of ALIASES is entirely lowercase, and no entry is the
\* service tag (the class name, which is the name of the cli command).
C8_AliasesLowercaseAndNotTag ==
    \A k \in 1..Len(ALIASES) :
        /\ Lower(ALIASES[k]) = ALIASES[k]
        /\ ALIASES[k] # ClassName
        /\ ALIASES[k] # cli.name

C8_Witness ==
    /\ Len(ALIASES) = 4
    /\ cli.name = ClassName
    /\ \E i \in 1..Len(instances) : Ready(i)
    /\ last.call.op = "get_session"

\* C9: once an instance is constructed, no step changes its title, nor the
\* class attributes ALIASES and GEOFENCE: whatever hooks are called, the
\* title stays the value the constructor was given.
C9_HooksLeaveTitleAndClassAttributes ==
    /\ [][ /\ \A i \in 1..Len(instances) :
                instances[i].phase = "ready" =>
                    /\ instances'[i].phase = "ready"
                    /\ instances'[i].title = instances[i].title
           /\ ALIASES' = ALIASES
           /\ GEOFENCE' = GEOFENCE ]_vars
    /\ [](\A i \in 1..Len(instances) :
                instances[i].phase = "ready" =>
                    instances[i].title = instances[i].ctorTitle)

C9_Witness ==
    /\ last.call.op = "get_titles"
    /\ last.kind = "return"
    /\ Ready(last.call.self)
    /\ instances[last.call.self].title = Val("str", "42")

====
